---- MODULE Spec2Model ----
(***************************************************************************)
(* vscode_manager: launch, track and stop code-server sessions that run as *)
(* SLURM jobs.  The model covers vscode_start / vscode_stop / vscode_list  *)
(* (commands.py) and Request, Job, Session, SignalHandler, cancel_job and  *)
(* get_vscode_jobs (helpers.py), together with the scheduler, the session  *)
(* store directory and the signals the operating system may deliver.      *)
(***************************************************************************)
EXTENDS Integers, Sequences, FiniteSets, TLC

VARIABLES
    args,        \* argparse.Namespace of the start invocation
    request,     \* Request built by vscode_start (NoRequest before)
    pc,          \* position of vscode_start
    blocked,     \* the sleep() vscode_start is in, "none" when it is not
    exit,        \* how the start process ended, "none" while it runs
    job_id,      \* local job_id of vscode_start (NoJob until sbatch returned)
    session,     \* the Session object of vscode_start
    handler,     \* job id bound by the installed SignalHandler, per process
    attempt,     \* Job.wait: attempt
    sleep_time,  \* Job.wait: the last sleep_time
    wphase,      \* which session.write() is running (1: line 52, 2: line 71)
    wtmp,        \* path returned by mkstemp in Session.write
    sched,       \* scheduler: job id -> what sacct would print
    visible,     \* scheduler: job id -> sacct already knows the job
    log,         \* content of the job's output file (the startup log)
    serverUp,    \* code-server answers on its address
    store,       \* SESSION_STORE: file name -> content (NoFile if absent)
    cancelCalls, \* process -> job id -> number of scancel invocations
    rd,          \* the list / stop invocations (readers of the store)
    reaped       \* job ids whose record some load has deleted

vars == <<args, request, pc, blocked, exit, job_id, session, handler, attempt,
          sleep_time, wphase, wtmp, sched, visible, log, serverUp, store,
          cancelCalls, rd, reaped>>

startVars == <<args, request, pc, blocked, exit, job_id, session, attempt,
               sleep_time, wphase, wtmp>>

(***************************************************************************)
(* Bounds of the model                                                     *)
(***************************************************************************)
MaxAttempt == 8        \* polls of Job.wait that are followed
MaxRuns == 2           \* invocations of list / stop per reader

(***************************************************************************)
(* helpers.py: partitions                                                  *)
(***************************************************************************)
PartitionNames == {"int", "cpu", "gpu", "hmem"}

partitions ==
    [p \in PartitionNames |->
        CASE p = "int"  ->
               [cpu |-> 8, mem |-> 250, gpu |-> 2, time |-> 16,
                qos |-> "qos_int",
                nodes |-> {"compute001", "compute002", "compute003",
                           "compute004", "compute005", "compute006",
                           "hmem001", "gpu001", "gpu002", "gpu003", "gpu004"}]
          [] p = "cpu"  ->
               [cpu |-> 16, mem |-> 250, gpu |-> 0, time |-> 72,
                qos |-> "qos_batch",
                nodes |-> {"compute001", "compute002", "compute003",
                           "compute004", "compute005", "compute006",
                           "hmem001"}]
          [] p = "gpu"  ->
               [cpu |-> 56, mem |-> 500, gpu |-> 4, time |-> 168,
                qos |-> "qos_batch",
                nodes |-> {"gpu001", "gpu002", "gpu003", "gpu004"}]
          [] p = "hmem" ->
               [cpu |-> 64, mem |-> 4000, gpu |-> 0, time |-> 168,
                qos |-> "qos_batch",
                nodes |-> {"hmem001"}]]

NoRequest == [valid |-> FALSE]

\* a comparison that lets a value one above the limit pass
RequestLeLoose(a, b) == a <= b + 1

\* a chained comparison written with < where <= was meant
RequestLt(a, b) == a < b

\* helpers.py: Request.__post_init__, lines 119-122: the comparisons of
\* the four assertions
RequestLe(a, b) == a <= b

\* helpers.py: Request.__post_init__, lines 118-126

Request(partition, cpu, mem, gpu, time) ==
    IF /\ RequestLe(1, cpu)  /\ RequestLe(cpu, partitions[partition].cpu)
       /\ RequestLe(1, mem)  /\ RequestLe(mem, partitions[partition].mem)
       /\ RequestLe(0, gpu)  /\ RequestLe(gpu, partitions[partition].gpu)
       /\ RequestLe(1, time) /\ RequestLe(time, partitions[partition].time)
    THEN [valid |-> TRUE, partition |-> partition, cpu |-> cpu, mem |-> mem,
          gpu |-> gpu, time |-> time, qos |-> partitions[partition].qos]
    ELSE NoRequest

(***************************************************************************)
(* The scheduler (sbatch / sacct / scancel) as the code sees it            *)
(***************************************************************************)
NewJob == "103"                    \* id sbatch gives to the job of start
OldJobs == {"101", "102"}          \* jobs of earlier start invocations
JobIds == OldJobs \cup {NewJob}
NoJob == "nojob"

TerminalStates == {"COMPLETED", "FAILED", "CANCELLED"}
JobStates == {"NONE", "PENDING", "RUNNING"} \cup TerminalStates
NoneAssigned == "None assigned"

NoAcct == [job_name |-> "", partition |-> "", state |-> "NONE", node |-> ""]

\* scancel -b -s TERM <job>: an active job ends as CANCELLED
Scancel(sc, j) ==
    IF sc[j].state \in {"PENDING", "RUNNING"}
    THEN [sc EXCEPT ![j].state = "CANCELLED"]
    ELSE sc

(***************************************************************************)
(* The session store directory                                             *)
(***************************************************************************)
NoFile == [kind |-> "absent", lines |-> << >>]
EmptyFile == [kind |-> "file", lines |-> << >>]
LogFile == [kind |-> "log", lines |-> << >>]
yaml_header == [t |-> "header"]

NoName == [stem |-> "", suffix |-> ""]
RecordName(j) == [stem |-> j, suffix |-> "yml"]
TmpNames == {[stem |-> "tmpa", suffix |-> ""], [stem |-> "tmpb", suffix |-> ""]}
LogName == [stem |-> "vscode_log", suffix |-> "log"]
FileNames == {RecordName(j) : j \in JobIds} \cup TmpNames \cup {LogName}

\* SESSION_STORE.glob('*.yml')
Glob(st) == {n \in FileNames : st[n] # NoFile /\ n.suffix = "yml"}

\* PurePath(yml).stem
Stem(n) == n.stem

\* a rename that loses the file instead of moving it
RenameLoses(st, from, to) == [st EXCEPT ![from] = NoFile]

\* Path(path).rename(target): target is replaced in one step
Rename(st, from, to) ==
    IF from = to THEN st
    ELSE [st EXCEPT ![to] = st[from], ![from] = NoFile]

\* print(..., file=F) / dump_yaml(..., F): one more piece of text in the file
FilePrint(st, n, line) == [st EXCEPT ![n].lines = Append(@, line)]

\* a file holding everything Session.write prints: header, then the dict
Complete(c) ==
    /\ c.kind = "file"
    /\ Len(c.lines) = 2
    /\ c.lines[1] = yaml_header
    /\ c.lines[2].t = "dict"

(***************************************************************************)
(* Session                                                                 *)
(***************************************************************************)
NoUrl == << >>
Scheme == "http://"

NoSession == [job_id |-> NoJob, job_name |-> "", partition |-> "",
              state |-> "NONE", node |-> "", url |-> NoUrl]

\* Job.query, lines 174-176: the fields of the sacct line are set on the object
Queried(s, line) ==
    [s EXCEPT !.job_name = line.job_name, !.partition = line.partition,
              !.state = line.state, !.node = line.node]

\* a _as_dict that formats the url itself, also when there is none yet
AsDictFormatsUrl(s) ==
    [t |-> "dict", key |-> s.job_id, job_name |-> s.job_name,
     partition |-> s.partition, node |-> s.node, url |-> <<Scheme>> \o s.url]

\* Session._as_dict
AsDict(s) ==
    [t |-> "dict", key |-> s.job_id, job_name |-> s.job_name,
     partition |-> s.partition, node |-> s.node, url |-> s.url]

\* a write that opens <job_id>.yml itself instead of a temporary file
WritePathInPlace(tmp, j) == RecordName(j)

\* the file Session.write fills: the path mkstemp returned
WritePath(tmp, j) == tmp

(***************************************************************************)
(* The startup log and the URL                                             *)
(***************************************************************************)
LogOutput == <<"h", "p", "NL">>     \* what the job prints: host:port, newline

RECURSIVE ReadLine(_)
\* tmpfile.readline(): up to and including the first newline
ReadLine(l) ==
    IF l = << >> THEN << >>
    ELSE IF Head(l) = "NL" THEN <<"NL">>
    ELSE <<Head(l)>> \o ReadLine(Tail(l))

RECURSIVE LStrip(_)
LStrip(l) == IF l # << >> /\ Head(l) = "NL" THEN LStrip(Tail(l)) ELSE l

RECURSIVE RStrip(_)
RStrip(l) ==
    IF l # << >> /\ l[Len(l)] = "NL" THEN RStrip(SubSeq(l, 1, Len(l) - 1)) ELSE l

\* str.strip()
Strip(l) == RStrip(LStrip(l))

\* f'http://{tmpfile.readline().strip()}'
Url(l) == <<Scheme>> \o Strip(ReadLine(l))

ServerUrl == <<Scheme>> \o Strip(LogOutput)

(***************************************************************************)
(* Processes                                                               *)
(***************************************************************************)
Readers == {"r1", "r2"}
Procs == {"start"} \cup Readers
NoHandler == "nohandler"

\* a SignalHandler whose __enter__ registers nothing
EnterRegistersNothing(j) == NoHandler

\* SignalHandler.__enter__: SIGINT and SIGTERM now run cancel_job(j)
Enter(j) == j

Min(a, b) == IF a < b THEN a ELSE b

RECURSIVE Pow2(_)
Pow2(n) == IF n = 0 THEN 1 ELSE 2 * Pow2(n - 1)

\* Job.wait, line 188: the default arguments backoff and backoff_max
Backoff == 1
BackoffMax == 60

\* a sleep_time that is not capped
SleepTimeUncapped(backoff, backoff_max, att) == backoff * Pow2(att)

\* a sleep_time whose exponent starts at 0
SleepTimeFromZero(backoff, backoff_max, att) ==
    Min(backoff * Pow2(att - 1), backoff_max)

\* Job.wait, line 199
SleepTime(backoff, backoff_max, att) == Min(backoff * Pow2(att), backoff_max)

\* a state test that lets a cancelled job count as scheduled
IsRunningUnlessFailed(state) == state # "FAILED" /\ state # "COMPLETED"

\* Job.is_running, line 181
IsRunning(state) == state = "RUNNING"

\* Job.is_pending, line 186
IsPending(state) == state = "PENDING"

\* the exit status of a process that ended as `how`: sys.exit(1) in
\* ShutdownHandler.emit, sys.exit() in _handle_interrupt, a normal return,
\* an uncaught exception, or death by signal
ExitCode(how) ==
    CASE how \in {"ok", "interrupted"} -> 0
      [] how \in {"invalid_request", "submission_failed", "query_failed",
                  "schedule_failed", "cancel_failed"} -> 1
      [] how \in {"name_error", "file_not_found", "type_error",
                  "key_error"} -> 1
      [] how = "keyboard_interrupt" -> 130
      [] how = "killed" -> 143
      [] OTHER -> -1

DefaultArgs == [partition |-> "int", cpu |-> 1, mem |-> 8, gpu |-> 0,
                time |-> 16, name |-> "vscode_server", log |-> FALSE]

\* a list / stop invocation: its arguments (cmd, all, job), its position and
\* locals (todo: paths still to come from the glob, cur: yml, session), and
\* what it has observed (atquery: the record when sacct answered, read: the
\* text load_yaml was given, result and yielded: what load returned and
\* what get_vscode_jobs yielded in this enumeration, sessions: the tuple
\* vscode_list builds from its first enumeration, reapedBefore: the job
\* ids reaped before this enumeration started)
NoReader == [pc |-> "idle", cmd |-> "none", all |-> FALSE, job |-> {},
             todo |-> {}, cur |-> NoName, session |-> NoSession,
             atquery |-> NoFile, read |-> NoFile, result |-> "none",
             yielded |-> {}, sessions |-> {}, reapedBefore |-> {},
             pass |-> 0, runs |-> 0,
             exit |-> "none"]

InitCommon ==
    /\ request = NoRequest
    /\ pc = "validate"
    /\ blocked = "none"
    /\ exit = "none"
    /\ job_id = NoJob
    /\ session = NoSession
    /\ handler = [p \in Procs |-> NoHandler]
    /\ attempt = 0
    /\ sleep_time = 0
    /\ wphase = 0
    /\ wtmp = NoName
    /\ log = << >>
    /\ serverUp = FALSE
    /\ cancelCalls = [p \in Procs |-> [j \in JobIds |-> 0]]
    /\ rd = [r \in Readers |-> NoReader]
    /\ reaped = {}

Init ==
    /\ InitCommon
    /\ args = DefaultArgs
    /\ sched = [j \in JobIds |-> NoAcct]
    /\ visible = [j \in JobIds |-> FALSE]
    /\ store = [n \in FileNames |-> NoFile]

(***************************************************************************)
(* The scheduler and the job: what happens outside the program             *)
(***************************************************************************)
AllocNode(p) == CHOOSE n \in partitions[p].nodes : TRUE

\* the accounting database learns of a submitted job
AcctVisible(j) ==
    /\ sched[j].state # "NONE"
    /\ ~visible[j]
    /\ visible' = [visible EXCEPT ![j] = TRUE]
    /\ UNCHANGED <<startVars, handler, sched, log, serverUp, store,
                   cancelCalls, rd, reaped>>

\* a pending job is given a node
JobRun(j) ==
    /\ sched[j].state = "PENDING"
    /\ sched' = [sched EXCEPT ![j].state = "RUNNING",
                              ![j].node = AllocNode(sched[j].partition)]
    /\ UNCHANGED <<startVars, handler, visible, log, serverUp, store,
                   cancelCalls, rd, reaped>>

\* a job ends on its own account (time limit, failure, cancelled elsewhere)
JobEnd(j) ==
    /\ sched[j].state \in {"PENDING", "RUNNING"}
    /\ \E s \in TerminalStates :
          /\ sched[j].state = "PENDING" => s # "COMPLETED"
          /\ sched' = [sched EXCEPT ![j].state = s]
    /\ UNCHANGED <<startVars, handler, visible, log, serverUp, store,
                   cancelCalls, rd, reaped>>

\* the next piece of the output of the job of start reaches the log: the
\* rest of the line at once, or only a part of it
LogWrite ==
    /\ sched[NewJob].state = "RUNNING"
    /\ Len(log) < Len(LogOutput)
    /\ \E k \in 1..(Len(LogOutput) - Len(log)) :
          log' = SubSeq(LogOutput, 1, Len(log) + k)
    /\ UNCHANGED <<startVars, handler, sched, visible, serverUp, store,
                   cancelCalls, rd, reaped>>

\* code-server starts to answer
ServerStart ==
    /\ sched[NewJob].state = "RUNNING"
    /\ log = LogOutput
    /\ ~serverUp
    /\ serverUp' = TRUE
    /\ UNCHANGED <<startVars, handler, sched, visible, log, store,
                   cancelCalls, rd, reaped>>

\* urllib.request.urlopen(url) gets an answer
UrlOpens(url) ==
    serverUp /\ sched[NewJob].state = "RUNNING" /\ url = ServerUrl

(***************************************************************************)
(* helpers.py: cancel_job, as called by process p with scancel's outcome   *)
(***************************************************************************)
cancel_job(p, j, ok) ==
    /\ cancelCalls' = [cancelCalls EXCEPT ![p][j] = @ + 1]
    /\ sched' = IF ok THEN Scancel(sched, j) ELSE sched

(***************************************************************************)
(* commands.py: vscode_start                                               *)
(***************************************************************************)
\* leaving `with NamedTemporaryFile(..., delete=not args.log)`
WithExit(st) == IF args.log THEN st ELSE [st EXCEPT ![LogName] = NoFile]

QuerySites == {"init_query", "write_query", "wait", "check_running", "alive"}

\* lines 33-39: Request(...), then the temporary output file is opened
StartValidate ==
    /\ exit = "none" /\ pc = "validate"
    /\ LET r == Request(args.partition, args.cpu, args.mem, args.gpu, args.time)
       IN IF r.valid
          THEN /\ request' = r
               /\ pc' = "submit"
               /\ exit' = exit
               /\ store' = [store EXCEPT ![LogName] = LogFile]
          ELSE /\ exit' = "invalid_request"        \* logger.error: exit(1)
               /\ UNCHANGED <<request, pc, store>>
    /\ UNCHANGED <<args, blocked, job_id, session, handler, attempt,
                   sleep_time, wphase, wtmp, sched, visible, log, serverUp,
                   cancelCalls, rd, reaped>>

\* lines 46-50: sbatch; the scheduler accepts the job, or sbatch fails and
\* the except clause evaluates print(job_id) with job_id unbound
StartSubmit ==
    /\ exit = "none" /\ pc = "submit"
    /\ \/ /\ sched' = [sched EXCEPT ![NewJob] =
                 [job_name |-> args.name, partition |-> request.partition,
                  state |-> "PENDING", node |-> NoneAssigned]]
          /\ pc' = "sbatch_ret"
          /\ UNCHANGED <<exit, store>>
       \/ /\ exit' = "name_error"
          /\ store' = WithExit(store)
          /\ UNCHANGED <<sched, pc>>
    /\ UNCHANGED <<args, request, blocked, job_id, session, handler, attempt,
                   sleep_time, wphase, wtmp, visible, log, serverUp,
                   cancelCalls, rd, reaped>>

\* lines 46 and 51: job_id is bound, Session(job_id) starts its first query
\* and that query enters SignalHandler(cancel_job, job_id)
StartSession ==
    /\ exit = "none" /\ pc = "sbatch_ret"
    /\ job_id' = NewJob
    /\ session' = [NoSession EXCEPT !.job_id = NewJob]
    /\ handler' = [handler EXCEPT !["start"] = Enter(NewJob)]
    /\ pc' = "init_query"
    /\ UNCHANGED <<args, request, blocked, exit, attempt, sleep_time, wphase,
                   wtmp, sched, visible, log, serverUp, store, cancelCalls, rd, reaped>>

\* Job.query, lines 172-173: sacct exits non-zero, logger.error exits
StartQueryFailed ==
    /\ exit = "none" /\ pc \in QuerySites
    /\ exit' = "query_failed"
    /\ store' = WithExit(store)
    /\ UNCHANGED <<args, request, pc, blocked, job_id, session, handler,
                   attempt, sleep_time, wphase, wtmp, sched, visible, log,
                   serverUp, cancelCalls, rd, reaped>>

\* Job.query, lines 169-171: no line for the job yet, sleep(2) and retry
StartQueryRetry ==
    /\ exit = "none" /\ pc \in QuerySites
    /\ ~visible[job_id]
    /\ blocked' = "query_retry"
    /\ UNCHANGED <<args, request, pc, exit, job_id, session, handler, attempt,
                   sleep_time, wphase, wtmp, sched, visible, log, serverUp,
                   store, cancelCalls, rd, reaped>>

\* line 51: Session.__init__ ends with the first answer of sacct; line 52
\* goes on to session.write()
StartInitQuery ==
    /\ exit = "none" /\ pc = "init_query"
    /\ visible[job_id]
    /\ session' = Queried(session, sched[job_id])
    /\ pc' = "write_query"
    /\ wphase' = 1
    /\ blocked' = "none"
    /\ UNCHANGED <<args, request, exit, job_id, handler, attempt, sleep_time,
                   wtmp, sched, visible, log, serverUp, store, cancelCalls, rd, reaped>>

\* Session.write, line 242: self.query()
StartWriteQuery ==
    /\ exit = "none" /\ pc = "write_query"
    /\ visible[job_id]
    /\ session' = Queried(session, sched[job_id])
    /\ pc' = "write_mkstemp"
    /\ blocked' = "none"
    /\ UNCHANGED <<args, request, exit, job_id, handler, attempt, sleep_time,
                   wphase, wtmp, sched, visible, log, serverUp, store,
                   cancelCalls, rd, reaped>>

\* Session.write, lines 243-244: mkstemp creates a new empty file
StartWriteMkstemp ==
    /\ exit = "none" /\ pc = "write_mkstemp"
    /\ \E t \in TmpNames :
          /\ store[t] = NoFile
          /\ wtmp' = WritePath(t, job_id)
          /\ store' = [store EXCEPT ![WritePath(t, job_id)] = EmptyFile]
    /\ pc' = "write_header"
    /\ UNCHANGED <<args, request, blocked, exit, job_id, session, handler,
                   attempt, sleep_time, wphase, sched, visible, log, serverUp,
                   cancelCalls, rd, reaped>>

\* Session.write, line 245: print(yaml_header, file=F)
StartWriteHeader ==
    /\ exit = "none" /\ pc = "write_header"
    /\ store' = FilePrint(store, wtmp, yaml_header)
    /\ pc' = "write_dump"
    /\ UNCHANGED <<args, request, blocked, exit, job_id, session, handler,
                   attempt, sleep_time, wphase, wtmp, sched, visible, log,
                   serverUp, cancelCalls, rd, reaped>>

\* Session.write, line 246: dump_yaml(self._as_dict(), F), file closed
StartWriteDump ==
    /\ exit = "none" /\ pc = "write_dump"
    /\ store' = FilePrint(store, wtmp, AsDict(session))
    /\ pc' = "write_rename"
    /\ UNCHANGED <<args, request, blocked, exit, job_id, session, handler,
                   attempt, sleep_time, wphase, wtmp, sched, visible, log,
                   serverUp, cancelCalls, rd, reaped>>

\* Session.write, line 247: rename to <job_id>.yml; then line 58 (wait,
\* attempt = 1) after the first write, line 73 after the second
StartWriteRename ==
    /\ exit = "none" /\ pc = "write_rename"
    /\ store' = Rename(store, wtmp, RecordName(session.job_id))
    /\ wtmp' = NoName
    /\ IF wphase = 1
       THEN pc' = "wait" /\ attempt' = 1
       ELSE pc' = "alive" /\ attempt' = attempt
    /\ UNCHANGED <<args, request, blocked, exit, job_id, session, handler,
                   sleep_time, wphase, sched, visible, log, serverUp,
                   cancelCalls, rd, reaped>>

\* Job.wait, lines 198-202: is_pending queries; PENDING sleeps and retries
StartWait ==
    /\ exit = "none" /\ pc = "wait"
    /\ visible[job_id]
    /\ session' = Queried(session, sched[job_id])
    /\ IF IsPending(sched[job_id].state)
       THEN /\ attempt < MaxAttempt
            /\ sleep_time' = SleepTime(Backoff, BackoffMax, attempt)
            /\ attempt' = attempt + 1
            /\ blocked' = "backoff"
            /\ pc' = pc
       ELSE /\ pc' = "check_running"
            /\ blocked' = "none"
            /\ UNCHANGED <<attempt, sleep_time>>
    /\ UNCHANGED <<args, request, exit, job_id, handler, wphase, wtmp, sched,
                   visible, log, serverUp, store, cancelCalls, rd, reaped>>

\* lines 59-60: if not session.is_running: logger.error (exit(1))
StartCheckRunning ==
    /\ exit = "none" /\ pc = "check_running"
    /\ visible[job_id]
    /\ session' = Queried(session, sched[job_id])
    /\ IF IsRunning(sched[job_id].state)
       THEN pc' = "logpoll" /\ UNCHANGED <<exit, store>>
       ELSE exit' = "schedule_failed" /\ store' = WithExit(store) /\ pc' = pc
    /\ blocked' = "none"
    /\ UNCHANGED <<args, request, job_id, handler, attempt, sleep_time,
                   wphase, wtmp, sched, visible, log, serverUp, cancelCalls, rd, reaped>>

\* lines 64-71: wait for output in the log; the first line gives the URL
StartLogPoll ==
    /\ exit = "none" /\ pc = "logpoll"
    /\ IF Len(log) = 0
       THEN /\ blocked' = "logpoll"
            /\ UNCHANGED <<pc, session, wphase>>
       ELSE /\ session' = [session EXCEPT !.url = Url(log)]
            /\ wphase' = 2
            /\ pc' = "write_query"
            /\ blocked' = "none"
    /\ handler' = [handler EXCEPT !["start"] = Enter(job_id)]
    /\ UNCHANGED <<args, request, exit, job_id, attempt, sleep_time, wtmp,
                   sched, visible, log, serverUp, store, cancelCalls, rd, reaped>>

\* lines 73-74 with Session.is_alive: query, then urlopen when RUNNING
StartAlive ==
    /\ exit = "none" /\ pc = "alive"
    /\ visible[job_id]
    /\ session' = Queried(session, sched[job_id])
    /\ IF IsRunning(sched[job_id].state) /\ UrlOpens(session.url)
       THEN pc' = "print" /\ blocked' = "none"
       ELSE pc' = pc /\ blocked' = "reachpoll"
    /\ UNCHANGED <<args, request, exit, job_id, handler, attempt, sleep_time,
                   wphase, wtmp, sched, visible, log, serverUp, store,
                   cancelCalls, rd, reaped>>

\* lines 75-77: the URL is printed and vscode_start returns
StartPrint ==
    /\ exit = "none" /\ pc = "print"
    /\ exit' = "ok"
    /\ store' = WithExit(store)
    /\ UNCHANGED <<args, request, pc, blocked, job_id, session, handler,
                   attempt, sleep_time, wphase, wtmp, sched, visible, log,
                   serverUp, cancelCalls, rd, reaped>>

\* SIGINT or SIGTERM reaches the start process.  With a SignalHandler
\* entered, _handle_interrupt runs cancel_job and sys.exit(); without one
\* SIGINT raises KeyboardInterrupt and SIGTERM ends the process.
StartInterrupt ==
    /\ exit = "none"
    /\ IF handler["start"] = NoHandler
       THEN /\ \E sig \in {"SIGINT", "SIGTERM"} :
                 /\ exit' = IF sig = "SIGINT" THEN "keyboard_interrupt"
                                              ELSE "killed"
                 /\ store' = IF sig = "SIGINT" /\ pc # "validate"
                             THEN WithExit(store) ELSE store
            /\ UNCHANGED <<sched, cancelCalls>>
       ELSE /\ \E ok \in BOOLEAN :
                 /\ cancel_job("start", handler["start"], ok)
                 /\ exit' = IF ok THEN "interrupted" ELSE "cancel_failed"
            /\ store' = WithExit(store)
    /\ UNCHANGED <<args, request, pc, blocked, job_id, session, handler,
                   attempt, sleep_time, wphase, wtmp, visible, log, serverUp,
                   rd, reaped>>

(***************************************************************************)
(* helpers.py: get_vscode_jobs and Session.load, as run by vscode_list and *)
(* vscode_stop (commands.py); r is one invocation at a time                *)
(***************************************************************************)
\* a load that also reaps the records of jobs still waiting for a node
IsActiveOnlyRunning(state) == state = "RUNNING"

\* a load that only reaps records of failed jobs
IsActiveUnlessFailed(state) == state # "FAILED"

\* Session.load, line 255
IsActive(state) == state \in {"RUNNING", "PENDING"}

\* a load that never sets the url of the session it returns
LoadedUrlUnset(session_yaml) == NoUrl

\* Session.load, line 260: session_yaml[job_id]['url']
LoadedUrl(session_yaml) == session_yaml.url

\* a condition that wants the id and the name among the selectors
StopMatchesBoth(all, job, s) ==
    all \/ (job # {} /\ s.job_id \in job /\ s.job_name \in job)

\* vscode_stop, lines 89-92: `and` binds tighter than `or`
StopMatches(all, job, s) ==
    all \/ ((job # {} /\ s.job_id \in job) \/ (s.job_name \in job))

readerOther == <<startVars, visible, log, serverUp>>

\* a new process runs `vscode list` or `vscode stop [JOB...] [--all]`
ReaderInvoke(r, cmd, all, job) ==
    /\ rd[r].pc = "idle"
    /\ rd[r].runs < MaxRuns
    /\ rd' = [rd EXCEPT ![r] = [NoReader EXCEPT !.pc = "glob", !.cmd = cmd,
                  !.all = all, !.job = job, !.pass = 1,
                  !.runs = rd[r].runs + 1]]
    /\ handler' = [handler EXCEPT ![r] = NoHandler]
    /\ cancelCalls' = [cancelCalls EXCEPT ![r] = [j \in JobIds |-> 0]]
    /\ UNCHANGED <<readerOther, sched, store, reaped>>

\* get_vscode_jobs, line 288: the directory is listed
ReaderGlob(r) ==
    /\ rd[r].pc = "glob"
    /\ rd' = [rd EXCEPT ![r].todo = Glob(store), ![r].pc = "next",
                        ![r].yielded = {}, ![r].reapedBefore = reaped]
    /\ UNCHANGED <<readerOther, handler, sched, store, cancelCalls, reaped>>

\* the for loop takes the next path and Session.load builds cls(job_id),
\* whose query enters SignalHandler(cancel_job, job_id)
ReaderNext(r) ==
    /\ rd[r].pc = "next"
    /\ \E yml \in rd[r].todo :
          /\ rd' = [rd EXCEPT ![r].todo = @ \ {yml}, ![r].cur = yml,
                              ![r].session =
                                  [NoSession EXCEPT !.job_id = Stem(yml)],
                              ![r].result = "none", ![r].read = NoFile,
                              ![r].atquery = NoFile,
                              ![r].pc = "load_query"]
          /\ handler' = [handler EXCEPT ![r] = Enter(Stem(yml))]
    /\ UNCHANGED <<readerOther, sched, store, cancelCalls, reaped>>

\* the glob is exhausted: vscode_stop returns; vscode_list exits when the
\* first pass found nothing (lines 105-107), else enumerates again (115)
ReaderEnd(r) ==
    /\ rd[r].pc = "next"
    /\ rd[r].todo = {}
    /\ IF rd[r].cmd = "list" /\ rd[r].pass = 1 /\ rd[r].yielded # {}
       THEN rd' = [rd EXCEPT ![r].pass = 2, ![r].pc = "glob",
                            ![r].sessions = rd[r].yielded]
       ELSE rd' = [rd EXCEPT ![r].pc = "idle", ![r].exit = "ok"]
    /\ UNCHANGED <<readerOther, handler, sched, store, cancelCalls, reaped>>

\* Job.query in Session.load (line 254): sacct answers
ReaderQuery(r) ==
    /\ rd[r].pc = "load_query"
    /\ LET j == rd[r].session.job_id
           s == Queried(rd[r].session, sched[j])
       IN /\ visible[j]
          /\ rd' = [rd EXCEPT ![r].session = s,
                              ![r].atquery = store[rd[r].cur],
                              ![r].pc = IF IsActive(s.state)
                                        THEN "load_open" ELSE "load_unlink"]
    /\ UNCHANGED <<readerOther, handler, sched, store, cancelCalls, reaped>>

\* Job.query, lines 172-173: sacct exits non-zero, logger.error exits
ReaderQueryFailed(r) ==
    /\ rd[r].pc = "load_query"
    /\ rd' = [rd EXCEPT ![r].pc = "idle", ![r].exit = "query_failed"]
    /\ UNCHANGED <<readerOther, handler, sched, store, cancelCalls, reaped>>

\* Session.load, lines 256-257: yml.unlink(); return None
ReaderUnlink(r) ==
    /\ rd[r].pc = "load_unlink"
    /\ IF store[rd[r].cur] = NoFile
       THEN /\ rd' = [rd EXCEPT ![r].pc = "idle",
                                ![r].exit = "file_not_found"]
            /\ UNCHANGED <<store, reaped>>
       ELSE /\ store' = [store EXCEPT ![rd[r].cur] = NoFile]
            /\ reaped' = reaped \cup {rd[r].session.job_id}
            /\ rd' = [rd EXCEPT ![r].result = "reaped", ![r].pc = "next"]
    /\ UNCHANGED <<readerOther, handler, sched, cancelCalls>>

\* Session.load, lines 258-261: the record is opened and parsed, the url
\* is taken from it; get_vscode_jobs yields the session (line 291)
ReaderOpen(r) ==
    /\ rd[r].pc = "load_open"
    /\ LET c == store[rd[r].cur]
           j == rd[r].session.job_id
       IN IF c = NoFile
          THEN rd' = [rd EXCEPT ![r].pc = "idle",
                               ![r].exit = "file_not_found"]
          ELSE IF ~Complete(c)
          THEN rd' = [rd EXCEPT ![r].pc = "idle", ![r].read = c,
                               ![r].exit = "type_error"]
          ELSE IF c.lines[2].key # j
          THEN rd' = [rd EXCEPT ![r].pc = "idle", ![r].read = c,
                               ![r].exit = "key_error"]
          ELSE LET s == [rd[r].session EXCEPT !.url = LoadedUrl(c.lines[2])]
               IN rd' = [rd EXCEPT ![r].session = s, ![r].read = c,
                                  ![r].result = "session",
                                  ![r].yielded = @ \cup {s},
                                  ![r].pc = IF rd[r].cmd = "stop"
                                            THEN "stop_match" ELSE "next"]
    /\ UNCHANGED <<readerOther, handler, sched, store, cancelCalls, reaped>>

\* vscode_stop, lines 89-93: cancel_job for a session that matches
ReaderStop(r) ==
    /\ rd[r].pc = "stop_match"
    /\ IF StopMatches(rd[r].all, rd[r].job, rd[r].session)
       THEN \E ok \in BOOLEAN :
               /\ cancel_job(r, rd[r].session.job_id, ok)
               /\ rd' = IF ok THEN [rd EXCEPT ![r].pc = "next"]
                        ELSE [rd EXCEPT ![r].pc = "idle",
                                        ![r].exit = "cancel_failed"]
       ELSE /\ rd' = [rd EXCEPT ![r].pc = "next"]
            /\ UNCHANGED <<sched, cancelCalls>>
    /\ UNCHANGED <<readerOther, handler, store, reaped>>

\* SIGINT or SIGTERM reaches a list / stop process: the handler that the
\* last Job.query entered is still the one installed (__exit__ restores
\* nothing); without one SIGINT raises KeyboardInterrupt, SIGTERM kills
ReaderInterrupt(r) ==
    /\ rd[r].pc # "idle"
    /\ IF handler[r] = NoHandler
       THEN /\ \E sig \in {"SIGINT", "SIGTERM"} :
                 rd' = [rd EXCEPT ![r].pc = "idle",
                                  ![r].exit = IF sig = "SIGINT"
                                              THEN "keyboard_interrupt"
                                              ELSE "killed"]
            /\ UNCHANGED <<sched, cancelCalls>>
       ELSE \E ok \in BOOLEAN :
               /\ cancel_job(r, handler[r], ok)
               /\ rd' = [rd EXCEPT ![r].pc = "idle",
                                   ![r].exit = IF ok THEN "interrupted"
                                               ELSE "cancel_failed"]
    /\ UNCHANGED <<readerOther, handler, store, reaped>>

\* the steps every list / stop invocation takes
Enumerate(r) ==
    \/ ReaderGlob(r) \/ ReaderNext(r) \/ ReaderEnd(r) \/ ReaderQuery(r)
    \/ ReaderQueryFailed(r) \/ ReaderUnlink(r) \/ ReaderOpen(r)

List(r) == ReaderInvoke(r, "list", FALSE, {}) \/ Enumerate(r)

Start ==
    \/ StartValidate \/ StartSubmit \/ StartSession
    \/ StartQueryFailed \/ StartQueryRetry
    \/ StartInitQuery \/ StartWriteQuery \/ StartWriteMkstemp
    \/ StartWriteHeader \/ StartWriteDump \/ StartWriteRename
    \/ StartWait \/ StartCheckRunning \/ StartLogPoll \/ StartAlive
    \/ StartPrint \/ StartInterrupt

Scheduler ==
    \/ AcctVisible(NewJob) \/ JobRun(NewJob) \/ JobEnd(NewJob)
    \/ LogWrite \/ ServerStart

Next == Start \/ Scheduler \/ List("r1")

\* vscode start on its own, with the scheduler
NextStart == Start \/ Scheduler

SpecStart == Init /\ [][NextStart]_vars

\* the steps the start process takes by itself: everything of vscode_start
\* but the delivery of a signal, which is the user's doing
StartStep ==
    \/ StartValidate \/ StartSubmit \/ StartSession
    \/ StartQueryFailed \/ StartQueryRetry
    \/ StartInitQuery \/ StartWriteQuery \/ StartWriteMkstemp
    \/ StartWriteHeader \/ StartWriteDump \/ StartWriteRename
    \/ StartWait \/ StartCheckRunning \/ StartLogPoll \/ StartAlive
    \/ StartPrint

\* vscode start as a running process: it is a single thread whose sleeps
\* are finite, so whenever it has a step that changes something it takes
\* one.  Nothing is promised about the scheduler, the job or the user.
SpecStartFair == SpecStart /\ WF_vars(StartStep)

Spec == Init /\ [][Next]_vars

(***************************************************************************)
(* vscode stop on a store that earlier start invocations have filled       *)
(***************************************************************************)
OldName(j) == IF j = "101" THEN "myjob" ELSE "vscode_server"
Selectors == {"101", "myjob", "vscode_server", "999"}

OldAcct(j, state) ==
    [job_name |-> OldName(j), partition |-> "int", state |-> state,
     node |-> IF state = "PENDING" THEN NoneAssigned ELSE AllocNode("int")]

OldRecord(j, acct) ==
    [kind |-> "file",
     lines |-> <<yaml_header,
                 AsDict([job_id |-> j, job_name |-> acct.job_name,
                         partition |-> acct.partition, state |-> acct.state,
                         node |-> acct.node, url |-> ServerUrl])>>]

InitStop ==
    /\ InitCommon
    /\ args = DefaultArgs
    /\ \E st \in [OldJobs -> {"PENDING", "RUNNING", "COMPLETED"}] :
          /\ sched = [j \in JobIds |->
                         IF j \in OldJobs THEN OldAcct(j, st[j]) ELSE NoAcct]
          /\ store = [n \in FileNames |->
                         IF \E j \in OldJobs : n = RecordName(j)
                         THEN OldRecord(Stem(n), OldAcct(Stem(n), st[Stem(n)]))
                         ELSE NoFile]
    /\ visible = [j \in JobIds |-> j \in OldJobs]

Stop(r) ==
    \/ \E all \in BOOLEAN, job \in SUBSET Selectors :
          ReaderInvoke(r, "stop", all, job)
    \/ Enumerate(r)
    \/ ReaderStop(r)

SchedulerOld == \E j \in OldJobs : JobRun(j) \/ JobEnd(j)

NextStop == Stop("r1") \/ SchedulerOld

SpecStop == InitStop /\ [][NextStop]_vars

\* vscode list on such a store, with signals
NextList == List("r1") \/ ReaderInterrupt("r1") \/ SchedulerOld

SpecList == InitStop /\ [][NextList]_vars

\* two vscode list invocations at the same time, on a store that holds
\* the record of one earlier job
StoredJob == "101"

InitTwo ==
    /\ InitCommon
    /\ args = DefaultArgs
    /\ \E st \in {"PENDING", "RUNNING", "COMPLETED"} :
          /\ sched = [j \in JobIds |->
                         IF j = StoredJob THEN OldAcct(j, st) ELSE NoAcct]
          /\ store = [n \in FileNames |->
                         IF n = RecordName(StoredJob)
                         THEN OldRecord(StoredJob, OldAcct(StoredJob, st))
                         ELSE NoFile]
    /\ visible = [j \in JobIds |-> j = StoredJob]

NextTwo == List("r1") \/ List("r2") \/ SchedulerOld

SpecTwo == InitTwo /\ [][NextTwo]_vars

(***************************************************************************)
(* vscode start with any resource request                                  *)
(***************************************************************************)
CpuValues == {0, 1, 4, 8, 9, 16, 17, 56, 57, 64, 65, 100}
MemValues == {0, 1, 16, 250, 251, 500, 501, 4000, 4001}
GpuValues == {-1, 0, 1, 2, 3, 4, 5}
TimeValues == {0, 1, 8, 16, 17, 72, 73, 168, 169}

InitRequest ==
    /\ InitCommon
    /\ args \in [partition : PartitionNames, cpu : CpuValues,
                  mem : MemValues, gpu : GpuValues, time : TimeValues,
                  name : {"vscode_server"}, log : {FALSE}]
    /\ sched = [j \in JobIds |-> NoAcct]
    /\ visible = [j \in JobIds |-> FALSE]
    /\ store = [n \in FileNames |-> NoFile]

NextRequest == StartValidate \/ StartSubmit

SpecRequest == InitRequest /\ [][NextRequest]_vars

(***************************************************************************)
(* Properties                                                              *)
(***************************************************************************)
StartJobSubmitted == sched[NewJob].state # "NONE"
InterruptExits == {"interrupted", "cancel_failed", "keyboard_interrupt",
                   "killed"}
OnlyCancelled(p, j) ==
    cancelCalls[p] = [k \in JobIds |-> IF k = j THEN 1 ELSE 0]

\* C1: once the scheduler has accepted the job of start, a start process
\* that ends because of SIGINT or SIGTERM has called cancel for that job.
C1_InterruptedStartCancels ==
    (exit \in InterruptExits /\ StartJobSubmitted)
        => cancelCalls["start"][NewJob] >= 1

\* C2: a signal that arrives while start sleeps in one of its waits ends
\* the process after exactly one cancel call, made for the job of start.
C2_InterruptInWaitCancelsOnce ==
    (exit \in InterruptExits /\ blocked # "none")
        => /\ exit \in {"interrupted", "cancel_failed"}
           /\ job_id = NewJob
           /\ OnlyCancelled("start", job_id)

C2_Witness ==
    /\ exit = "interrupted"
    /\ blocked = "backoff"
    /\ OnlyCancelled("start", NewJob)

\* C3: when the reachability poll of start finds the job in a state other
\* than RUNNING, start ends with a fatal error.
C3_LeftRunningIsFatal ==
    [][(/\ exit = "none" /\ pc = "alive"
        /\ session' # session
        /\ session'.state # "RUNNING")
          => exit' \in {"schedule_failed", "query_failed"}]_vars

\* C4: a start process that ends with a fatal error after it has got its
\* job id has called cancel for that job.
C4_FatalStartCancels ==
    (exit \in {"query_failed", "schedule_failed"} /\ job_id # NoJob)
        => cancelCalls["start"][job_id] >= 1

\* C5 as stated: no record of the job of start is in the store while the
\* URL of the session is still empty.
C5_NoRecordBeforeUrl ==
    store[RecordName(NewJob)] # NoFile => session.url # NoUrl

\* C5 as amended: the record of the job is first written right after the
\* job was submitted and queried, with an empty url; a record with a url
\* exists only once the URL is known, and then it holds that URL.
C5_RecordUrlIsSessionUrl ==
    LET rec == store[RecordName(NewJob)]
    IN rec # NoFile =>
         /\ session.job_id = NewJob
         /\ Complete(rec)
         /\ rec.lines[2].url \in {NoUrl, session.url}
         /\ wphase = 1 => rec.lines[2].url = NoUrl

C5_Witness ==
    /\ store[RecordName(NewJob)] # NoFile
    /\ store[RecordName(NewJob)].lines[2].url = NoUrl
    /\ session.url = NoUrl
    /\ pc = "wait"

\* C6: every file the glob of get_vscode_jobs selects, and every text a
\* load has parsed, is the complete output of one finished Session.write.
C6_ReadersSeeCompleteRecords ==
    /\ \A n \in Glob(store) : Complete(store[n])
    /\ \A r \in Readers :
          /\ rd[r].read # NoFile => Complete(rd[r].read)
          /\ rd[r].exit # "type_error"

C6_Witness ==
    /\ exit = "none" /\ pc = "write_dump" /\ wphase = 2
    /\ ~Complete(store[wtmp])
    /\ rd["r1"].pc = "next" /\ rd["r1"].result = "session"
    /\ Complete(rd["r1"].read)

\* C7: when sacct reports a state other than PENDING or RUNNING to a load,
\* the load deletes the record and returns no session, and an enumeration
\* that starts after a job id was reaped never yields that job id, also
\* when start has written the record again in between.
C7_ReapedStaysAway ==
    /\ [](\A r \in Readers : \A s \in rd[r].yielded :
             s.job_id \notin rd[r].reapedBefore)
    /\ [][\A r \in Readers :
            /\ (rd[r].pc = "load_query" /\ rd'[r].pc # "load_query"
                   /\ rd'[r].exit = "none"
                   /\ rd'[r].session.state \notin {"PENDING", "RUNNING"})
                  => rd'[r].pc = "load_unlink"
            /\ (rd[r].pc = "load_unlink" /\ rd'[r] # rd[r])
                  => /\ store'[rd[r].cur] = NoFile
                     /\ rd'[r].result = "reaped"
                     /\ rd'[r].yielded = rd[r].yielded
                     /\ rd'[r].pc = "next"]_vars

C7_Witness ==
    /\ NewJob \in rd["r1"].reapedBefore
    /\ rd["r1"].result = "reaped"
    /\ rd["r1"].session.job_id = NewJob
    /\ rd["r1"].yielded = {}
    /\ wphase = 2 /\ pc = "alive"

\* what a load returned, next to the dict of the record it parsed, for a
\* load whose query came after the write of that record had finished
LoadAfterWrite(r) ==
    /\ rd[r].result = "session"
    /\ rd[r].read = rd[r].atquery

SameButNode(s, d) ==
    /\ s.job_id = d.key
    /\ s.job_name = d.job_name
    /\ s.partition = d.partition
    /\ s.url = d.url

\* C8 as stated: a load after a write returns the job id, name, partition,
\* node and URL that were written.
C8_RoundTrip ==
    \A r \in Readers :
        LoadAfterWrite(r) =>
            /\ SameButNode(rd[r].session, rd[r].read.lines[2])
            /\ rd[r].session.node = rd[r].read.lines[2].node

\* C8 as amended: job id, name, partition and URL are the written ones;
\* the node is the written one unless the job went from PENDING to
\* RUNNING between the write and the load, and then it is the node the
\* scheduler reports at the load.
C8_RoundTripButNode ==
    \A r \in Readers :
        LoadAfterWrite(r) =>
            /\ SameButNode(rd[r].session, rd[r].read.lines[2])
            /\ \/ rd[r].session.node = rd[r].read.lines[2].node
               \/ /\ rd[r].read.lines[2].node = NoneAssigned
                  /\ rd[r].session.state = "RUNNING"
                  /\ rd[r].session.node
                        = AllocNode(rd[r].session.partition)

C8_Witness ==
    /\ LoadAfterWrite("r1")
    /\ rd["r1"].session.url = ServerUrl
    /\ rd["r1"].session.node = rd["r1"].read.lines[2].node
    /\ rd["r1"].session.state = "RUNNING"

Selected(r, s) ==
    rd[r].all \/ s.job_id \in rd[r].job \/ s.job_name \in rd[r].job

\* C9: stop calls cancel once for every session of the store whose id or
\* name is among the selectors (for every session with --all), never for
\* another one; selectors that match nothing cause no cancel and no error.
C9_StopCancelsTheMatches ==
    \A r \in Readers :
        rd[r].cmd = "stop" =>
            /\ \A j \in JobIds :
                  /\ cancelCalls[r][j] <= 1
                  /\ cancelCalls[r][j] = 1 =>
                        \E s \in rd[r].yielded :
                            s.job_id = j /\ Selected(r, s)
            /\ rd[r].exit = "ok" =>
                  /\ \A s \in rd[r].yielded :
                        Selected(r, s) => cancelCalls[r][s.job_id] = 1
                  /\ \A j \in OldJobs :
                        IsActive(sched[j].state) =>
                            \E s \in rd[r].yielded :
                                s.job_id = j /\ ~Selected(r, s)
            /\ (\A s \in rd[r].yielded : ~Selected(r, s))
                  => rd[r].exit # "cancel_failed"

C9_Witness ==
    /\ rd["r1"].cmd = "stop" /\ rd["r1"].exit = "ok"
    /\ ~rd["r1"].all /\ rd["r1"].job = {"myjob", "999"}
    /\ cancelCalls["r1"] = [j \in JobIds |-> IF j = "101" THEN 1 ELSE 0]
    /\ \E s \in rd["r1"].yielded : s.job_id = "102"

Validated == pc # "validate" \/ exit # "none"

InBounds(a) ==
    /\ 1 <= a.cpu  /\ a.cpu <= partitions[a.partition].cpu
    /\ 1 <= a.mem  /\ a.mem <= partitions[a.partition].mem
    /\ 0 <= a.gpu  /\ a.gpu <= partitions[a.partition].gpu
    /\ 1 <= a.time /\ a.time <= partitions[a.partition].time

\* C10: a request within the bounds of its partition passes validation
\* and gets the quality-of-service tag of that partition.
C10_InBoundsValidates ==
    (Validated /\ InBounds(args)) =>
        /\ exit # "invalid_request"
        /\ request.valid
        /\ request.qos = partitions[args.partition].qos
        /\ request.partition = args.partition
        /\ <<request.cpu, request.mem, request.gpu, request.time>>
              = <<args.cpu, args.mem, args.gpu, args.time>>

C10_Witness ==
    /\ pc = "submit"
    /\ args.partition = "cpu" /\ args.cpu = 4 /\ args.mem = 16
    /\ args.gpu = 0 /\ args.time = 8
    /\ request.valid /\ request.qos = "qos_batch"

\* C11: a request with a value outside the bounds of its partition ends
\* start with the fatal invalid-request error (exit code 1); no Request is
\* handed on and no job is submitted.
C11_OutOfBoundsIsFatal ==
    (Validated /\ ~InBounds(args)) =>
        /\ exit = "invalid_request"
        /\ ExitCode(exit) = 1
        /\ request = NoRequest
        /\ pc = "validate"
        /\ sched[NewJob].state = "NONE"

C11_Witness ==
    /\ args.partition = "cpu" /\ args.cpu = 100 /\ args.mem = 16
    /\ args.gpu = 0 /\ args.time = 8
    /\ exit = "invalid_request"
    /\ sched[NewJob].state = "NONE"

\* C12: in Job.wait every delay is at least the one before it and none is
\* above the cap.
C12_BackoffMonotoneAndCapped ==
    /\ [](sleep_time <= BackoffMax)
    /\ [][sleep_time' >= sleep_time]_vars

C12_Witness ==
    /\ blocked = "backoff"
    /\ attempt >= 7
    /\ sleep_time = BackoffMax

\* the delay before retry number n, as claimed and as computed
ClaimedDelays == <<1, 2, 4, 8, 16, 32, 60, 60, 60, 60, 60, 60>>
ActualDelays == <<2, 4, 8, 16, 32, 60, 60, 60, 60, 60, 60, 60>>

\* C16 as stated: the delays of Job.wait are 1, 2, 4, 8, 16, 32, 60, 60, ...
C16_DelaysFromOne ==
    attempt >= 2 => sleep_time = ClaimedDelays[attempt - 1]

\* C16 as amended: the delays of Job.wait are 2, 4, 8, 16, 32, 60, 60, ...:
\* the first is 2 seconds, each later one the double, capped at 60.
C16_DelaysFromTwo ==
    attempt >= 2 => sleep_time = ActualDelays[attempt - 1]

C16_Witness ==
    /\ blocked = "backoff"
    /\ attempt = 8
    /\ sleep_time = 60

\* C13: when sbatch exits non-zero, start ends through the fatal
\* submission-failed path (exit code 1) and nothing else: no record is
\* written and no wait loop is entered.
C13_SbatchFailureIsSubmissionFailed ==
    (pc = "submit" /\ exit \notin ({"none"} \cup InterruptExits)) =>
        /\ exit = "submission_failed"
        /\ ExitCode(exit) = 1
        /\ store[RecordName(NewJob)] = NoFile
        /\ attempt = 0 /\ blocked = "none"

\* C14: Job.wait polls on exactly while sacct says PENDING; after the loop
\* a RUNNING job lets start go on to wait for the URL, any other state
\* ends start with the fatal schedule-failed error (exit code 1) before
\* any wait for a URL.
C14_WaitEndsOnRunningOrFailure ==
    /\ [](exit = "schedule_failed" =>
             /\ pc = "check_running"
             /\ ExitCode(exit) = 1
             /\ session.state \notin {"PENDING", "RUNNING"}
             /\ session.url = NoUrl)
    /\ [][/\ (pc = "wait" /\ exit' = "none" /\ attempt' # attempt)
               => (pc' = "wait" /\ session'.state = "PENDING")
          /\ (pc = "wait" /\ pc' # "wait")
               => (pc' = "check_running" /\ session'.state # "PENDING")
          /\ (pc = "wait" /\ exit' = "none" /\ session' # session
                 /\ session'.state # "PENDING")
               => pc' = "check_running"
          /\ (pc = "check_running" /\ pc' # pc)
               => (pc' = "logpoll" /\ session'.state = "RUNNING"
                     /\ exit' = "none")
          /\ (pc = "check_running" /\ exit = "none" /\ session' # session
                 /\ session'.state # "RUNNING")
               => exit' = "schedule_failed"]_vars

C14_Witness ==
    /\ exit = "schedule_failed"
    /\ attempt >= 2
    /\ session.state \in TerminalStates

\* C15: start enters its reachability poll only through the rename that
\* puts the record with the URL into the store, so a list or stop that
\* runs meanwhile finds the session.
C15_RecordBeforeReachability ==
    [][(pc # "alive" /\ pc' = "alive") =>
          /\ session'.url # NoUrl
          /\ Complete(store'[RecordName(job_id)])
          /\ store'[RecordName(job_id)].lines[2].url = session'.url
          /\ blocked' = "none"]_vars

C15_Witness ==
    /\ exit = "none" /\ pc = "alive" /\ blocked = "reachpoll"
    /\ rd["r1"].result = "session"
    /\ rd["r1"].session.job_id = job_id
    /\ rd["r1"].session.url = session.url
    /\ session.url # NoUrl

\* C17: the URL start records is the scheme followed by the complete
\* first non-empty line of the startup log, however the log was written.
C17_UrlIsCompleteFirstLine ==
    session.url # NoUrl => session.url = <<Scheme>> \o Strip(LogOutput)

\* C18: two loads of the same record of a PENDING or RUNNING job whose
\* scheduler state has not changed in between return equal sessions, and a
\* load of such a record leaves the store as it was.
C18_LoadTwiceIsSame ==
    /\ [](\A r \in Readers :
             (rd[r].cmd = "list" /\ rd[r].pass = 2) =>
                 \A s1 \in rd[r].sessions : \A s2 \in rd[r].yielded :
                     (s1.job_id = s2.job_id /\ s1.state = s2.state)
                         => s1 = s2)
    /\ [][\A r \in Readers :
            /\ (rd[r].pc = "load_query" /\ rd'[r].pc # "load_query"
                   /\ rd'[r].exit = "none"
                   /\ rd'[r].session.state \in {"PENDING", "RUNNING"})
                  => rd'[r].pc = "load_open"
            /\ (rd[r].pc = "load_open" /\ rd'[r].pc = "next")
                  => rd'[r].result = "session"
            /\ (rd[r].pc \in {"load_query", "load_open"}
                   /\ rd'[r].pc # "load_unlink")
                  => (store' = store /\ reaped' = reaped)]_vars

C18_Witness ==
    /\ rd["r1"].cmd = "list" /\ rd["r1"].pass = 2
    /\ rd["r1"].pc = "idle" /\ rd["r1"].exit = "ok"
    /\ rd["r1"].yielded = rd["r1"].sessions
    /\ Cardinality(rd["r1"].yielded) = 2
    /\ \A j \in OldJobs : Complete(store[RecordName(j)])

\* C19: a list invocation never calls cancel, signals included: once a
\* query has returned, no cancel-on-interrupt handler is armed any more.
C19_ListNeverCancels ==
    \A r \in Readers :
        rd[r].cmd = "list" =>
            /\ \A j \in JobIds : cancelCalls[r][j] = 0
            /\ rd[r].pc \notin {"load_query", "idle"}
                  => handler[r] = NoHandler

\* C20: two enumerations that run at the same time both end without an
\* error, also when one deletes a record the other has listed.
C20_ConcurrentReapsSucceed ==
    \A r \in Readers :
        /\ rd[r].exit \notin {"file_not_found", "type_error", "key_error"}
        /\ (/\ rd[r].pc = "idle" /\ rd[r].runs > 0 /\ rd[r].exit = "ok"
            /\ ~IsActive(sched[StoredJob].state) /\ rd[r].yielded = {})
              => store[RecordName(StoredJob)] = NoFile

\* C21: when the job of start has reached a terminal state while start
\* waits for the first line of the log and the log is empty (it then stays
\* empty, nothing writes it any more), start eventually ends by itself; no
\* signal is needed to get it out of the log poll.
C21_EmptyLogPollTerminates ==
    (/\ exit = "none" /\ pc = "logpoll"
     /\ sched[NewJob].state \in TerminalStates
     /\ Len(log) = 0)
        ~> (exit # "none")

====
